---- MODULE Spec2Model ----
(***************************************************************************)
(* Model of scripts/app.py: the record loader (load_data), the fighter     *)
(* aggregator (calculate_fighter_stats, with its keyword classification of *)
(* the method text) and the finish-method breakdown                        *)
(* (create_finish_method_pie).                                             *)
(* Spec calls them in any order, SpecQueries follows sequences of queries,  *)
(* SpecMain is the run of main up to the dashboard.                         *)
(*                                                                         *)
(* A text is a sequence of one-character strings.  A table is a set of     *)
(* column names plus a sequence of rows; a row carries its pandas index    *)
(* label (idx) and a function from the table's columns to cell values.     *)
(* Rates are exact fractions <<numerator, denominator>> in lowest terms.   *)
(***************************************************************************)
EXTENDS Integers, Sequences, FiniteSets, TLC

VARIABLES file, df, load, stats, loc, pie, prev, run

vars == <<file, df, load, stats, loc, pie, prev, run>>

(* ------------------------------------------------------------------ *)
(* Bounds                                                               *)
(* ------------------------------------------------------------------ *)
MaxRows == 2

(* ------------------------------------------------------------------ *)
(* Values                                                               *)
(* ------------------------------------------------------------------ *)
\* Python's None, and the absence of data/ufc_fights.csv
None == [none |-> TRUE]
NoFile == [nofile |-> TRUE]
NaN == "NaN"
NaNText == <<"NaN">>
NaNDate == <<"NaN">>
NaT == 0

IsNa(x) == x = NaN
IsNaText(t) == t = NaNText

Upper == <<"A","B","C","D","E","F","G","H","I","J","K","L","M",
           "N","O","P","Q","R","S","T","U","V","W","X","Y","Z">>
Lowers == <<"a","b","c","d","e","f","g","h","i","j","k","l","m",
            "n","o","p","q","r","s","t","u","v","w","x","y","z">>

LowerChar(c) ==
    IF \E i \in 1..26 : Upper[i] = c
    THEN Lowers[CHOOSE i \in 1..26 : Upper[i] = c]
    ELSE c

LowerText(t) == [i \in 1..Len(t) |-> LowerChar(t[i])]

Contains(t, pat) ==
    \E i \in 1..(Len(t) - Len(pat) + 1) : SubSeq(t, i, i + Len(pat) - 1) = pat

IsSpace(c) == c = " "

RECURSIVE LStrip(_)
LStrip(t) == IF t # <<>> /\ IsSpace(Head(t)) THEN LStrip(Tail(t)) ELSE t

RECURSIVE RStrip(_)
RStrip(t) ==
    IF t # <<>> /\ IsSpace(t[Len(t)]) THEN RStrip(SubSeq(t, 1, Len(t) - 1)) ELSE t

\* Series.str.strip(): a missing value stays missing
StrStrip(t) == IF IsNaText(t) THEN t ELSE RStrip(LStrip(t))

\* method texts
TxtKO == <<"K","O">>
TxtTKO == <<"T","K","O">>
TxtKnockout == <<"K","n","o","c","k","o","u","t">>
TxtTechnicalKnockout ==
    <<"T","e","c","h","n","i","c","a","l"," ">> \o TxtKnockout
TxtKOTKO == <<"K","O","/","T","K","O">>
TxtKOTKOSpace == TxtKOTKO \o <<" ">>
TxtPaddedTKO == <<" ">> \o TxtTKO \o <<" ">>
TxtTKOPunches == TxtTKO \o <<" ","(","P","u","n","c","h","e","s",")">>
TxtKOLegKick == TxtKO \o <<" ","(","L","e","g"," ","K","i","c","k",")">>
TxtDecision ==
    <<"D","e","c","i","s","i","o","n"," ","-"," ",
      "U","n","a","n","i","m","o","u","s">>
TxtSubRNC ==
    <<"S","u","b","m","i","s","s","i","o","n"," ","(",
      "R","e","a","r"," ","N","a","k","e","d"," ",
      "C","h","o","k","e",")">>

\* the replace() dictionary of load_data, as <<from, to>> pairs
MethodSynonyms ==
    { <<TxtKO, TxtKOTKO>>, <<TxtTKO, TxtKOTKO>>, <<TxtKnockout, TxtKOTKO>>,
      <<TxtTechnicalKnockout, TxtKOTKO>>, <<TxtKOTKOSpace, TxtKOTKO>> }

\* Series.replace(dict): exact-match remapping of whole cell values
ReplaceMethod(t) ==
    IF \E p \in MethodSynonyms : p[1] = t
    THEN (CHOOSE p \in MethodSynonyms : p[1] = t)[2]
    ELSE t

NormalizeMethod(t) == ReplaceMethod(StrStrip(t))

\* the alternatives of the two regular expressions of calculate_fighter_stats
KoPattern ==
    { TxtKO, TxtTKO, TxtKnockout, <<"k","n","o","c","k","o","u","t">> }
SubPattern ==
    { <<"S","u","b">>,
      <<"s","u","b","m","i","s","s","i","o","n">>,
      <<"S","u","b","m","i","s","s","i","o","n">>,
      <<"c","h","o","k","e">>, <<"a","r","m">>, <<"l","e","g">>,
      <<"t","r","i","a","n","g","l","e">>,
      <<"r","e","a","r"," ","n","a","k","e","d">>,
      <<"g","u","i","l","l","o","t","i","n","e">> }

\* StrContains without case=False
StrContains_CaseSensitive(t, alts) ==
    IF IsNaText(t) THEN FALSE
    ELSE \E a \in alts : Contains(t, a)

\* Series.str.contains(alternation, case=False, na=False) on one cell
StrContains(t, alts) ==
    IF IsNaText(t) THEN FALSE
    ELSE \E a \in alts : Contains(LowerText(t), LowerText(a))

(* ------------------------------------------------------------------ *)
(* Dates: a date cell of the file is <<"iso", y, m, d>> (2021-01-01),  *)
(* <<"mdy", m, d, y>> (06/01/2021), <<"text">> (not a date) or empty.  *)
(* A parsed timestamp is the number yyyymmdd; NaT is 0.                *)
(* ------------------------------------------------------------------ *)
DaysIn(y, m) ==
    IF m \in {4, 6, 9, 11} THEN 30
    ELSE IF m = 2 THEN (IF y % 4 = 0 /\ (y % 100 # 0 \/ y % 400 = 0) THEN 29 ELSE 28)
    ELSE 31

Timestamp(y, m, d) ==
    IF m \in 1..12 /\ d \in 1..DaysIn(y, m) THEN y * 10000 + m * 100 + d ELSE NaT

\* pd.to_datetime(format='mixed', dayfirst=False, errors='coerce') on one cell
ToDatetime(c) ==
    IF c = NaNDate THEN NaT
    ELSE IF c[1] = "iso" THEN Timestamp(c[2], c[3], c[4])
    ELSE IF c[1] = "mdy" THEN Timestamp(c[4], c[2], c[3])
    ELSE NaT

(* ------------------------------------------------------------------ *)
(* Input files                                                          *)
(* ------------------------------------------------------------------ *)
RequiredColumns == <<"winner", "loser", "method">>
Required == {"winner", "loser", "method"}
WinnerStats == {"winner_strikes_landed", "winner_strikes_attempted",
                "winner_takedowns", "winner_takedown_attempts"}
LoserStats == {"loser_strikes_landed", "loser_strikes_attempted",
               "loser_takedowns", "loser_takedown_attempts"}
AllColumns == Required \cup {"date"} \cup WinnerStats \cup LoserStats

\* the column sets of the input files considered
ColSets ==
    { Required,
      Required \cup {"date"},
      AllColumns,
      {"winner", "loser", "date"},
      {"loser", "date"},
      Required \cup {"date"} \cup WinnerStats,
      Required \cup {"date", "winner_strikes_landed", "winner_strikes_attempted",
                     "loser_strikes_landed", "loser_strikes_attempted"},
      Required \cup LoserStats \cup {"winner_takedowns", "winner_takedown_attempts"} }

Bout(w, l, m, d, ws, ls) ==
    [ winner |-> w, loser |-> l, method |-> m, date |-> d,
      winner_strikes_landed |-> ws[1], winner_strikes_attempted |-> ws[2],
      winner_takedowns |-> ws[3], winner_takedown_attempts |-> ws[4],
      loser_strikes_landed |-> ls[1], loser_strikes_attempted |-> ls[2],
      loser_takedowns |-> ls[3], loser_takedown_attempts |-> ls[4] ]

\* the bouts an input file is made of
Pool ==
    << Bout("A", "B", TxtKO, <<"iso", 2021, 1, 1>>, <<10, 20, 1, 2>>, <<5, 15, 0, 1>>),
       Bout("C", "A", TxtDecision, <<"mdy", 6, 1, 2021>>, <<8, 16, 2, 4>>, <<7, 14, 0, 0>>),
       Bout("A", "A", TxtSubRNC, <<"iso", 2021, 1, 1>>, <<3, 6, 1, 1>>, <<2, 4, 0, 2>>),
       Bout("B", "A", TxtTKOPunches, <<"iso", 2021, 1, 1>>, <<0, 0, 0, 0>>, <<0, 0, 0, 0>>),
       Bout("A", "C", TxtKOLegKick, <<"mdy", 2, 29, 2020>>, <<4, 5, 0, 0>>, <<1, 9, 1, 3>>),
       Bout(NaN, "B", TxtKOTKOSpace, <<"iso", 2021, 1, 1>>, <<1, 2, 0, 0>>, <<1, 1, 0, 0>>),
       Bout("A", "B", NaNText, <<"iso", 2021, 6, 1>>, <<6, 9, 0, 1>>, <<2, 8, 0, 0>>),
       Bout("B", "C", TxtPaddedTKO, <<"text">>, <<2, 3, 1, 1>>, <<0, 4, 0, 0>>),
       Bout("A", NaN, TxtKnockout, <<"iso", 2021, 2, 30>>, <<1, 1, 0, 0>>, <<0, 0, 0, 0>>) >>

Picks == UNION { [1..n -> 1..Len(Pool)] : n \in 0..MaxRows }

\* pd.read_csv: rows get the index labels 0, 1, 2, ...
ReadCsv(cs, picks) ==
    [ columns |-> cs,
      rows |-> [i \in 1..Len(picks) |->
                  [idx |-> i - 1, v |-> [c \in cs |-> Pool[picks[i]][c]]]] ]

Files == {NoFile} \cup { ReadCsv(cs, p) : cs \in ColSets, p \in Picks }

(* ------------------------------------------------------------------ *)
(* load_data                                                            *)
(* ------------------------------------------------------------------ *)
RECURSIVE Filter(_, _)
\* the rows of a sequence whose position is in keep, in order
Filter(rows, keep) ==
    IF rows = <<>> THEN <<>>
    ELSE LET n == Len(rows)
             front == Filter(SubSeq(rows, 1, n - 1), keep)
         IN IF n \in keep THEN Append(front, rows[n]) ELSE front

\* df['date'] = pd.to_datetime(df['date'], ...)
ParseDates(rows) ==
    [i \in 1..Len(rows) |->
       [rows[i] EXCEPT !.v = [@ EXCEPT !["date"] = ToDatetime(@)]]]

\* Series.isna() on one cell of column c
IsNull(c, x) ==
    IF c = "date" THEN x = NaT ELSE IF c = "method" THEN IsNaText(x) ELSE IsNa(x)

\* DropNa with how='all': a row goes only when every column of cols is missing
DropNa_All(rows, cols) ==
    Filter(rows, {i \in 1..Len(rows) : \E c \in cols : ~IsNull(c, rows[i].v[c])})

\* df.dropna(subset=cols)
DropNa(rows, cols) ==
    Filter(rows, {i \in 1..Len(rows) : \A c \in cols : ~IsNull(c, rows[i].v[c])})

\* [col for col in required_columns if col not in df.columns]
MissingColumns(cs) ==
    LET miss == {i \in 1..Len(RequiredColumns) : RequiredColumns[i] \notin cs}
    IN Filter(RequiredColumns, miss)

\* read_csv gives a column without any text value a numeric dtype
\* (object when the file has no rows); .str raises on a numeric column
MethodIsObject(f) ==
    Len(f.rows) = 0 \/ \E i \in 1..Len(f.rows) : ~IsNaText(f.rows[i].v["method"])

NormalizeMethods(rows) ==
    [i \in 1..Len(rows) |->
       [rows[i] EXCEPT !.v = [@ EXCEPT !["method"] = NormalizeMethod(@)]]]

UniqueMethods(rows) == { rows[i].v["method"] : i \in 1..Len(rows) }

\* sorted(unique_methods) compares a float NaN with a str
SortedRaises(rows) ==
    NaNText \in UniqueMethods(rows) /\ Cardinality(UniqueMethods(rows)) >= 2

Failed(status, missing, invalid) ==
    [df |-> None, status |-> status, missing |-> missing, invalid_dates |-> invalid]

load_data(f) ==
    IF f = NoFile THEN Failed("FileNotFoundError", <<>>, 0)
    ELSE
    LET hasDate == "date" \in f.columns
        parsed == IF hasDate THEN ParseDates(f.rows) ELSE f.rows
        invalid == IF hasDate
                   THEN Cardinality({i \in 1..Len(parsed) : parsed[i].v["date"] = NaT})
                   ELSE 0
        dated == IF hasDate /\ invalid > 0 THEN DropNa(parsed, {"date"}) ELSE parsed
        missing == MissingColumns(f.columns)
        kept == DropNa(dated, {"winner", "loser"})
        normal == NormalizeMethods(kept)
    IN IF missing # <<>> THEN Failed("MissingColumns", missing, invalid)
       ELSE IF ~MethodIsObject(f) THEN Failed("Exception", <<>>, invalid)
       ELSE IF SortedRaises(normal) THEN Failed("Exception", <<>>, invalid)
       ELSE [ df |-> [columns |-> f.columns, rows |-> normal],
              status |-> "ok", missing |-> <<>>, invalid_dates |-> invalid ]

(* ------------------------------------------------------------------ *)
(* calculate_fighter_stats                                              *)
(* ------------------------------------------------------------------ *)
NaNNum == -1

WinnerRename ==
    [ winner_strikes_landed |-> "strikes_landed",
      winner_strikes_attempted |-> "strikes_attempted",
      winner_takedowns |-> "takedowns_landed",
      winner_takedown_attempts |-> "takedown_attempts" ]
LoserRename ==
    [ loser_strikes_landed |-> "strikes_landed",
      loser_strikes_attempted |-> "strikes_attempted",
      loser_takedowns |-> "takedowns_landed",
      loser_takedown_attempts |-> "takedown_attempts" ]
OwnColumns == {"strikes_landed", "strikes_attempted", "takedowns_landed", "takedown_attempts"}

\* the missing value concat fills a column of this name with
NullOf(c) ==
    IF c = "date" THEN NaT
    ELSE IF c = "method" THEN NaNText
    ELSE IF c \in {"winner", "loser", "result"} THEN NaN
    ELSE NaNNum

\* df[df[col] == fighter_name].copy(), then frame['result'] = result
Select(table, col, fighter_name, result) ==
    LET rows == table.rows
        hit == Filter(rows, {i \in 1..Len(rows) : rows[i].v[col] = fighter_name})
    IN [ columns |-> table.columns \cup {"result"},
         rows |-> [i \in 1..Len(hit) |->
                     [ idx |-> hit[i].idx,
                       v |-> [c \in table.columns \cup {"result"} |->
                                IF c = "result" THEN result ELSE hit[i].v[c]] ]] ]

\* frame.rename(columns=map) when probe is a column, else the four zero columns
Standardize(frame, probe, map) ==
    IF probe \in frame.columns
    THEN LET old == DOMAIN map \cap frame.columns
             cols == (frame.columns \ old) \cup { map[c] : c \in old }
             From(c) == IF \E o \in old : map[o] = c
                        THEN CHOOSE o \in old : map[o] = c
                        ELSE c
         IN [ columns |-> cols,
              rows |-> [i \in 1..Len(frame.rows) |->
                          [ idx |-> frame.rows[i].idx,
                            v |-> [c \in cols |-> frame.rows[i].v[From(c)]] ]] ]
    ELSE LET cols == frame.columns \cup OwnColumns
         IN [ columns |-> cols,
              rows |-> [i \in 1..Len(frame.rows) |->
                          [ idx |-> frame.rows[i].idx,
                            v |-> [c \in cols |->
                                     IF c \in OwnColumns THEN 0
                                     ELSE frame.rows[i].v[c]] ]] ]

\* Concat without the rows of b that a already holds
Concat_Unique(a, b) ==
    LET cols == a.columns \cup b.columns
        Widen(fr, r) == [c \in cols |-> IF c \in fr.columns THEN r.v[c] ELSE NullOf(c)]
        held == {a.rows[i].idx : i \in 1..Len(a.rows)}
        rest == Filter(b.rows, {i \in 1..Len(b.rows) : b.rows[i].idx \notin held})
        n == Len(a.rows)
    IN [ columns |-> cols,
         rows |-> [i \in 1..(n + Len(rest)) |->
                     IF i <= n
                     THEN [idx |-> i - 1, src |-> a.rows[i].idx, v |-> Widen(a, a.rows[i])]
                     ELSE [idx |-> i - 1, src |-> rest[i - n].idx,
                           v |-> Widen(b, rest[i - n])]] ]

\* pd.concat([a, b], ignore_index=True): the union of the columns, a's rows
\* then b's.  src keeps the index label a row had before the index was reset.
Concat(a, b) ==
    LET cols == a.columns \cup b.columns
        Widen(fr, r) == [c \in cols |-> IF c \in fr.columns THEN r.v[c] ELSE NullOf(c)]
        n == Len(a.rows)
    IN [ columns |-> cols,
         rows |-> [i \in 1..(n + Len(b.rows)) |->
                     IF i <= n
                     THEN [idx |-> i - 1, src |-> a.rows[i].idx, v |-> Widen(a, a.rows[i])]
                     ELSE [idx |-> i - 1, src |-> b.rows[i - n].idx,
                           v |-> Widen(b, b.rows[i - n])]] ]

RECURSIVE SortFrom(_, _, _)
\* the rows at the positions todo in ascending date order; rows of equal
\* date are taken in the order before (tie = 1) or in its reverse (tie = -1)
SortFrom(rows, todo, tie) ==
    IF todo = {} THEN <<>>
    ELSE LET First(i) ==
                 \A j \in todo :
                    \/ rows[i].v["date"] < rows[j].v["date"]
                    \/ rows[i].v["date"] = rows[j].v["date"] /\ tie * i <= tie * j
             i == CHOOSE k \in todo : First(k)
         IN <<rows[i]>> \o SortFrom(rows, todo \ {i}, tie)

\* SortValues without the sort
SortValues_Unsorted(frame) == { frame }

\* all_fights.sort_values('date') when there is a date column.  The default
\* sort is not stable: rows of equal date have no defined order, and the
\* outcomes are the two arrangements that keep or reverse their order.
SortValues(frame) ==
    IF "date" \in frame.columns
    THEN { [frame EXCEPT !.rows = SortFrom(frame.rows, 1..Len(frame.rows), tie)]
           : tie \in {1, -1} }
    ELSE { frame }

RECURSIVE SumFrom(_, _, _)
SumFrom(rows, c, n) ==
    IF n = 0 THEN 0
    ELSE SumFrom(rows, c, n - 1) + (IF rows[n].v[c] = NaNNum THEN 0 ELSE rows[n].v[c])

\* frame[c].sum(): missing values are skipped
ColumnSum(frame, c) == SumFrom(frame.rows, c, Len(frame.rows))

RECURSIVE Gcd(_, _)
Gcd(a, b) == IF b = 0 THEN a ELSE Gcd(b, a % b)

\* the fraction n/d in lowest terms, d > 0
Frac(n, d) == LET g == Gcd(n, d) IN <<n \div g, d \div g>>

\* (part / whole * 100) if whole > 0 else 0
Percent(part, whole) == IF whole > 0 THEN Frac(100 * part, whole) ELSE <<0, 1>>

\* CountTrue as Series.count(): the number of cells
CountTrue_Count(flags) == Len(flags)

\* Series.sum() of a boolean series
CountTrue(flags) == Cardinality({i \in 1..Len(flags) : flags[i]})

KeyError == [raised |-> "KeyError"]

\* the values calculate_fighter_stats(table, fighter_name) can return, each
\* with the local variables the call computed
\* (KeyError: a sum reads an own column that neither frame has; no input
\* file here has a time_minutes column, so avg_fight_time is 0)
calculate_fighter_stats(table, fighter_name) ==
    LET fighter_wins == Select(table, "winner", fighter_name, "Win")
        fighter_losses == Select(table, "loser", fighter_name, "Loss")
        wins_data == Standardize(fighter_wins, "winner_strikes_landed", WinnerRename)
        losses_data == Standardize(fighter_losses, "loser_strikes_landed", LoserRename)
        combined == Concat(wins_data, losses_data)
        wins == Len(fighter_wins.rows)
        losses == Len(fighter_losses.rows)
        hasMethod == "method" \in fighter_wins.columns
        ko_methods == IF hasMethod
                      THEN [i \in 1..wins |->
                              StrContains(fighter_wins.rows[i].v["method"], KoPattern)]
                      ELSE <<>>
        sub_methods == IF hasMethod
                       THEN [i \in 1..wins |->
                               StrContains(fighter_wins.rows[i].v["method"], SubPattern)]
                       ELSE <<>>
        ko_wins == CountTrue(ko_methods)
        sub_wins == CountTrue(sub_methods)
        locals == [ fighter_name |-> fighter_name,
                    fighter_wins |-> fighter_wins, fighter_losses |-> fighter_losses,
                    ko_methods |-> ko_methods, sub_methods |-> sub_methods ]
    IN IF wins = 0 /\ losses = 0
       THEN { [ret |-> None, loc |-> locals] }
       ELSE IF ~(OwnColumns \subseteq combined.columns)
       THEN { [ret |-> KeyError, loc |-> locals] }
       ELSE { [ ret |->
                  [ name |-> fighter_name,
                    total_fights |-> Len(all_fights.rows),
                    wins |-> wins,
                    losses |-> losses,
                    win_rate |-> Percent(wins, Len(all_fights.rows)),
                    ko_rate |-> Percent(ko_wins, wins),
                    sub_rate |-> Percent(sub_wins, wins),
                    strike_accuracy |->
                        Percent(ColumnSum(all_fights, "strikes_landed"),
                                ColumnSum(all_fights, "strikes_attempted")),
                    takedown_accuracy |->
                        Percent(ColumnSum(all_fights, "takedowns_landed"),
                                ColumnSum(all_fights, "takedown_attempts")),
                    avg_fight_time |-> 0,
                    ko_wins |-> ko_wins,
                    sub_wins |-> sub_wins,
                    fights_data |-> all_fights ],
                loc |-> locals ]
              : all_fights \in SortValues(combined) }

\* the locals of calculate_fighter_stats that are made with .copy(), so that
\* they share no data with the caller's table
CopiedLocals_Views == {"wins_data", "losses_data"}

CopiedLocals == {"fighter_wins", "fighter_losses", "wins_data", "losses_data"}

\* the column assignments the call makes in place, in order: the object
\* written, the table rows it was selected from, the columns and the value
InPlaceWrites(table, fighter_name) ==
    LET won == {i \in 1..Len(table.rows) : table.rows[i].v["winner"] = fighter_name}
        lost == {i \in 1..Len(table.rows) : table.rows[i].v["loser"] = fighter_name}
    IN IF won = {} /\ lost = {} THEN <<>>
       ELSE << [target |-> "fighter_wins", rows |-> won, cols |-> {"result"}, val |-> "Win"],
               [target |-> "fighter_losses", rows |-> lost, cols |-> {"result"},
                val |-> "Loss"] >>
            \o (IF "winner_strikes_landed" \in table.columns THEN <<>>
                ELSE <<[target |-> "wins_data", rows |-> won, cols |-> OwnColumns,
                        val |-> 0]>>)
            \o (IF "loser_strikes_landed" \in table.columns THEN <<>>
                ELSE <<[target |-> "losses_data", rows |-> lost, cols |-> OwnColumns,
                        val |-> 0]>>)

\* the table after a write to an object that shares its data: the rows
\* written get the value, a new column is missing on the other rows
WriteThrough(table, w) ==
    LET cols == table.columns \cup w.cols
    IN [ columns |-> cols,
         rows |-> [i \in 1..Len(table.rows) |->
                     [ idx |-> table.rows[i].idx,
                       v |-> [c \in cols |->
                                IF c \in w.cols /\ i \in w.rows THEN w.val
                                ELSE IF c \in table.columns THEN table.rows[i].v[c]
                                ELSE NullOf(c)] ]] ]

RECURSIVE ApplyWrites(_, _, _)
ApplyWrites(table, writes, copied) ==
    IF writes = <<>> THEN table
    ELSE ApplyWrites(IF Head(writes).target \in copied THEN table
                     ELSE WriteThrough(table, Head(writes)),
                     Tail(writes), copied)

\* the caller's table as calculate_fighter_stats(table, fighter_name) leaves it
TableAfter(table, fighter_name) ==
    ApplyWrites(table, InPlaceWrites(table, fighter_name), CopiedLocals)

\* the names a caller asks about
QueryNames == {"A", "B", "C", "Unknown Fighter"}

(* ------------------------------------------------------------------ *)
(* create_finish_method_pie                                             *)
(* ------------------------------------------------------------------ *)
EmptyFigure == [labels |-> <<>>, values |-> <<>>]

\* create_finish_method_pie with the Decision slice tested by != 0
create_finish_method_pie_NonZero(fighter_stats) ==
    IF fighter_stats = None THEN [figure |-> EmptyFigure]
    ELSE LET wins == fighter_stats.wins
             ko_wins == fighter_stats.ko_wins
             sub_wins == fighter_stats.sub_wins
             decision_wins == wins - ko_wins - sub_wins
             ko == IF ko_wins > 0 THEN <<<<"KO/TKO", ko_wins>>>> ELSE <<>>
             sub == IF sub_wins > 0 THEN <<<<"Submission", sub_wins>>>> ELSE <<>>
             dec == IF decision_wins # 0 THEN <<<<"Decision", decision_wins>>>> ELSE <<>>
             slices == ko \o sub \o dec
         IN [ figure |->
                IF wins = 0 THEN EmptyFigure
                ELSE [ labels |-> [i \in 1..Len(slices) |-> slices[i][1]],
                       values |-> [i \in 1..Len(slices) |-> slices[i][2]] ],
              decision_wins |-> decision_wins ]

\* the figure returned, with the local decision_wins when it was computed
create_finish_method_pie(fighter_stats) ==
    IF fighter_stats = None THEN [figure |-> EmptyFigure]
    ELSE LET wins == fighter_stats.wins
             ko_wins == fighter_stats.ko_wins
             sub_wins == fighter_stats.sub_wins
             decision_wins == wins - ko_wins - sub_wins
             ko == IF ko_wins > 0 THEN <<<<"KO/TKO", ko_wins>>>> ELSE <<>>
             sub == IF sub_wins > 0 THEN <<<<"Submission", sub_wins>>>> ELSE <<>>
             dec == IF decision_wins > 0 THEN <<<<"Decision", decision_wins>>>> ELSE <<>>
             slices == ko \o sub \o dec
         IN [ figure |->
                IF wins = 0 THEN EmptyFigure
                ELSE [ labels |-> [i \in 1..Len(slices) |-> slices[i][1]],
                       values |-> [i \in 1..Len(slices) |-> slices[i][2]] ],
              decision_wins |-> decision_wins ]

(* ------------------------------------------------------------------ *)
(* The program: one load, then any number of queries and charts         *)
(* ------------------------------------------------------------------ *)
\* prev: how the query before the last one ended; run: the frame of main
NoCall == "-"
\* how a call of calculate_fighter_stats ended
Outcome(ret) ==
    IF ret = None THEN "None" ELSE IF ret = KeyError THEN "KeyError" ELSE "stats"
Idle == [pc |-> "idle"]

NotLoaded == [status |-> "not_loaded", missing |-> <<>>, invalid_dates |-> 0]

Init ==
    /\ file \in Files
    /\ df = None
    /\ load = NotLoaded
    /\ stats = None
    /\ loc = None
    /\ pie = None
    /\ prev = NoCall
    /\ run = Idle

LoadData ==
    /\ load.status = "not_loaded"
    /\ run = Idle
    /\ LET r == load_data(file)
       IN /\ df' = r.df
          /\ load' = [status |-> r.status, missing |-> r.missing,
                      invalid_dates |-> r.invalid_dates]
    /\ UNCHANGED <<file, stats, loc, pie, prev, run>>

Aggregate ==
    /\ load.status = "ok"
    /\ run = Idle
    /\ \E fighter_name \in QueryNames :
         /\ \E r \in calculate_fighter_stats(df, fighter_name) :
               /\ stats' = r.ret
               /\ loc' = r.loc
         /\ df' = TableAfter(df, fighter_name)
    /\ pie' = None
    /\ UNCHANGED <<file, load, prev, run>>

\* a query that follows other queries: prev keeps how the one before ended
Query ==
    /\ load.status = "ok"
    /\ run = Idle
    /\ \E fighter_name \in QueryNames :
         /\ \E r \in calculate_fighter_stats(df, fighter_name) :
               /\ stats' = r.ret
               /\ loc' = r.loc
         /\ df' = TableAfter(df, fighter_name)
    /\ prev' = IF loc = None THEN NoCall ELSE Outcome(stats)
    /\ UNCHANGED <<file, load, pie, run>>

FinishPie ==
    /\ run = Idle
    /\ loc # None
    /\ stats # KeyError
    /\ pie = None
    /\ pie' = create_finish_method_pie(stats)
    /\ UNCHANGED <<file, df, load, stats, loc, prev, run>>

Next == LoadData \/ Aggregate \/ FinishPie

Spec == Init /\ [][Next]_vars

NextQueries == LoadData \/ Query

SpecQueries == Init /\ [][NextQueries]_vars

(* ------------------------------------------------------------------ *)
(* main: the load, the guard, the two selections and the two queries    *)
(* ------------------------------------------------------------------ *)
\* df is None or len(df) == 0, with only the None test
NoData_NoneOnly(table) == table = None

\* df is None or len(df) == 0
NoData(table) == table = None \/ Len(table.rows) = 0

\* set(df['winner'].tolist() + df['loser'].tolist())
AllFighters(table) ==
    { table.rows[i].v["winner"] : i \in 1..Len(table.rows) }
        \cup { table.rows[i].v["loser"] : i \in 1..Len(table.rows) }

At(pc) == [pc |-> pc]

\* lines 407-414: load, then stop with the error messages when there is no data
MainLoad ==
    /\ run = Idle
    /\ load.status = "not_loaded"
    /\ LET r == load_data(file)
       IN /\ df' = r.df
          /\ load' = [status |-> r.status, missing |-> r.missing,
                      invalid_dates |-> r.invalid_dates]
          /\ run' = IF NoData(r.df) THEN At("error") ELSE At("select")
    /\ UNCHANGED <<file, stats, loc, pie, prev>>

\* lines 417-429: validate_data_format (len(df) raises on None), the two
\* select boxes (None when there is nothing to select) and the test that the
\* selections differ
MainSelect ==
    /\ run.pc = "select"
    /\ IF df = None THEN run' = At("raised")
       ELSE IF AllFighters(df) = {} THEN run' = At("same")
       ELSE \E fighter1 \in AllFighters(df) : \E fighter2 \in AllFighters(df) :
               run' = IF fighter1 = fighter2 THEN At("same")
                      ELSE [pc |-> "calc1", fighter1 |-> fighter1, fighter2 |-> fighter2]
    /\ UNCHANGED <<file, df, load, stats, loc, pie, prev>>

\* line 432: an exception of the call ends the run
MainCalc1 ==
    /\ run.pc = "calc1"
    /\ \E r \in calculate_fighter_stats(df, run.fighter1) :
          /\ stats' = r.ret
          /\ loc' = r.loc
          /\ run' = IF r.ret = KeyError THEN At("raised")
                    ELSE [ pc |-> "calc2", fighter2 |-> run.fighter2,
                           fighter1_ok |-> r.ret # None ]
    /\ df' = TableAfter(df, run.fighter1)
    /\ prev' = IF loc = None THEN NoCall ELSE Outcome(stats)
    /\ UNCHANGED <<file, load, pie>>

\* lines 433-437: the second call, then the test that both returned stats
MainCalc2 ==
    /\ run.pc = "calc2"
    /\ \E r \in calculate_fighter_stats(df, run.fighter2) :
          /\ stats' = r.ret
          /\ loc' = r.loc
          /\ run' = IF r.ret = KeyError THEN At("raised")
                    ELSE IF ~run.fighter1_ok \/ r.ret = None THEN At("unable")
                    ELSE At("dashboard")
    /\ df' = TableAfter(df, run.fighter2)
    /\ prev' = IF loc = None THEN NoCall ELSE Outcome(stats)
    /\ UNCHANGED <<file, load, pie>>

NextMain == MainLoad \/ MainSelect \/ MainCalc1 \/ MainCalc2

SpecMain == Init /\ [][NextMain]_vars

(* ------------------------------------------------------------------ *)
(* Properties                                                           *)
(* ------------------------------------------------------------------ *)
Queried == loc # None
IsStats(s) == s # None /\ s # KeyError
Returned == Queried /\ IsStats(stats)

Positions(rows) == 1..Len(rows)
\* the table rows the queried fighter won / lost
WonRows == {i \in Positions(df.rows) : df.rows[i].v["winner"] = loc.fighter_name}
LostRows == {i \in Positions(df.rows) : df.rows[i].v["loser"] = loc.fighter_name}

\* C1: whenever a query returns a stats object, wins + losses = total_fights
\* and total_fights is the length of the returned fights_data, also when a
\* row has the fighter as both winner and loser.
C1_TotalIsWinsPlusLosses ==
    Returned =>
        /\ stats.wins + stats.losses = stats.total_fights
        /\ stats.total_fights = Len(stats.fights_data.rows)
        /\ stats.wins = Cardinality(WonRows)
        /\ stats.losses = Cardinality(LostRows)

C1_Witness ==
    /\ Returned
    /\ WonRows \cap LostRows # {}
    /\ stats.total_fights = 2 * Cardinality(WonRows \cap LostRows)

\* C2: a query returns None exactly when the name is in neither the winner
\* nor the loser column; a fighter with fights in one direction only gets a
\* stats object (zero on the other side), never None and never an error.
C2_NoneIffAbsent ==
    Queried =>
        /\ (stats = None) <=> (WonRows = {} /\ LostRows = {})
        /\ (WonRows = {} /\ LostRows # {}) => (IsStats(stats) /\ stats.wins = 0)
        /\ (LostRows = {} /\ WonRows # {}) => (IsStats(stats) /\ stats.losses = 0)

\* C3: for every table row, the returned fights_data has at most one entry
\* derived from that row, also for a row whose winner is its loser.
C3_OneEntryPerBout ==
    Returned =>
        \A i \in Positions(df.rows) :
            Cardinality({k \in Positions(stats.fights_data.rows) :
                           stats.fights_data.rows[k].src = df.rows[i].idx}) <= 1

\* C4: with the file read, load_data fails exactly when one of winner, loser,
\* method is not a column; then nothing is returned and the columns reported
\* are exactly the absent required ones.
C4_FailsIffColumnMissing ==
    (load.status # "not_loaded" /\ file # NoFile) =>
        LET absent == {i \in 1..3 : RequiredColumns[i] \notin file.columns}
        IN /\ (df = None) <=> (absent # {})
           /\ (absent # {}) =>
                 /\ Len(load.missing) = Cardinality(absent)
                 /\ \A i \in absent : \E k \in 1..Len(load.missing) :
                        load.missing[k] = RequiredColumns[i]

C4_MissingReported ==
    /\ load.status = "MissingColumns"
    /\ df = None
    /\ load.missing = <<"method">>

\* C5: after a successful load the table holds exactly the input rows whose
\* date parsed (when there is a date column) and whose winner and loser are
\* present, in input order; the reported count is the number of rows with an
\* unparsable date; no row of the table misses winner, loser or date.
MonthDays == <<31, 28, 31, 30, 31, 30, 31, 31, 30, 31, 30, 31>>
IsLeap(y) == (y % 4 = 0 /\ y % 100 # 0) \/ y % 400 = 0
CalendarDay(y, m, d) ==
    /\ m >= 1 /\ m <= 12 /\ d >= 1
    /\ d <= MonthDays[m] + (IF m = 2 /\ IsLeap(y) THEN 1 ELSE 0)
Parsable(c) ==
    \/ Len(c) = 4 /\ c[1] = "iso" /\ CalendarDay(c[2], c[3], c[4])
    \/ Len(c) = 4 /\ c[1] = "mdy" /\ CalendarDay(c[4], c[2], c[3])
BadDateRows ==
    IF "date" \in file.columns
    THEN {i \in Positions(file.rows) : ~Parsable(file.rows[i].v["date"])}
    ELSE {}
KeptRows ==
    {i \in Positions(file.rows) \ BadDateRows :
        file.rows[i].v["winner"] # NaN /\ file.rows[i].v["loser"] # NaN}

C5_TableIsValidRows ==
    load.status = "ok" =>
        /\ Len(df.rows) = Cardinality(KeptRows)
        /\ \A k \in Positions(df.rows) : df.rows[k].idx + 1 \in KeptRows
        /\ \A k \in Positions(df.rows) :
              \A j \in Positions(df.rows) : k < j => df.rows[k].idx < df.rows[j].idx
        /\ load.invalid_dates = Cardinality(BadDateRows)
        /\ \A k \in Positions(df.rows) :
              /\ df.rows[k].v["winner"] = file.rows[df.rows[k].idx + 1].v["winner"]
              /\ df.rows[k].v["loser"] = file.rows[df.rows[k].idx + 1].v["loser"]
              /\ df.rows[k].v["winner"] # NaN
              /\ df.rows[k].v["loser"] # NaN
              /\ "date" \in df.columns => df.rows[k].v["date"] # NaT

C5_Witness ==
    /\ load.status = "ok"
    /\ "date" \in file.columns
    /\ load.invalid_dates = 1
    /\ \E i \in Positions(file.rows) \ BadDateRows : file.rows[i].v["winner"] = NaN
    /\ Len(df.rows) = 0

\* C6: the classification of a win's method is a case-insensitive substring
\* test: KO when the text contains ko, tko or knockout; submission when it
\* contains sub, submission, choke, arm, leg, triangle, rear naked or
\* guillotine; a missing method gives false for both.
KoKeywords == { <<"k","o">>, <<"t","k","o">>, <<"k","n","o","c","k","o","u","t">> }
SubKeywords ==
    { <<"s","u","b">>, <<"s","u","b","m","i","s","s","i","o","n">>,
      <<"c","h","o","k","e">>, <<"a","r","m">>, <<"l","e","g">>,
      <<"t","r","i","a","n","g","l","e">>,
      <<"r","e","a","r"," ","n","a","k","e","d">>,
      <<"g","u","i","l","l","o","t","i","n","e">> }
HasKeyword(t, keys) ==
    /\ t # NaNText
    /\ \E k \in keys : \E i \in 1..Len(t) :
          /\ i + Len(k) - 1 <= Len(t)
          /\ \A j \in 1..Len(k) : LowerChar(t[i + j - 1]) = k[j]

C6_Classification ==
    Queried =>
        /\ Len(loc.ko_methods) = Len(loc.fighter_wins.rows)
        /\ Len(loc.sub_methods) = Len(loc.fighter_wins.rows)
        /\ \A i \in Positions(loc.fighter_wins.rows) :
              LET m == loc.fighter_wins.rows[i].v["method"]
              IN /\ loc.ko_methods[i] = HasKeyword(m, KoKeywords)
                 /\ loc.sub_methods[i] = HasKeyword(m, SubKeywords)
                 /\ m = TxtSubRNC => (~loc.ko_methods[i] /\ loc.sub_methods[i])
                 /\ m = TxtTKOPunches => (loc.ko_methods[i] /\ ~loc.sub_methods[i])
                 /\ m = TxtDecision => (~loc.ko_methods[i] /\ ~loc.sub_methods[i])
                 /\ m = NaNText => (~loc.ko_methods[i] /\ ~loc.sub_methods[i])

C6_Witness ==
    /\ Queried
    /\ \E i \in Positions(loc.fighter_wins.rows) :
          /\ loc.fighter_wins.rows[i].v["method"] = NaNText
          /\ ~loc.ko_methods[i] /\ ~loc.sub_methods[i]

\* C7: the returned fights_data is a rearrangement of the fighter's win rows
\* (result Win) and loss rows (result Loss); with a date column it is in
\* non-decreasing date order, without one it is the wins then the losses,
\* each in table order.  For "A beats B by KO on 2021-01-01, A loses to C by
\* decision on 2021-06-01" the stats of A are 1 win, 1 loss, 1 KO win, KO
\* rate 100, submission rate 0, win rate 50, in the order Win, Loss.
Entries == stats.fights_data.rows
EntryOf(i, result) ==
    {k \in Positions(Entries) :
        /\ Entries[k].src = df.rows[i].idx
        /\ Entries[k].v["result"] = result
        /\ \A c \in {"winner", "loser", "method"} : Entries[k].v[c] = df.rows[i].v[c]}
ExampleTable ==
    /\ "date" \in df.columns
    /\ Len(df.rows) = 2
    /\ \E i \in 1..2 :
          /\ df.rows[i].v["winner"] = "A" /\ df.rows[i].v["loser"] = "B"
          /\ df.rows[i].v["method"] = TxtKOTKO /\ df.rows[i].v["date"] = 20210101
    /\ \E i \in 1..2 :
          /\ df.rows[i].v["winner"] = "C" /\ df.rows[i].v["loser"] = "A"
          /\ df.rows[i].v["method"] = TxtDecision /\ df.rows[i].v["date"] = 20210601

C7_PerspectiveOrder ==
    Returned =>
        /\ Len(Entries) = Cardinality(WonRows) + Cardinality(LostRows)
        /\ \A i \in WonRows : Cardinality(EntryOf(i, "Win")) = 1
        /\ \A i \in LostRows : Cardinality(EntryOf(i, "Loss")) = 1
        /\ "date" \in df.columns =>
              \A k \in Positions(Entries) : \A j \in Positions(Entries) :
                  k < j => Entries[k].v["date"] <= Entries[j].v["date"]
        /\ "date" \notin df.columns =>
              \A k \in Positions(Entries) : \A j \in Positions(Entries) :
                  k < j =>
                     \/ Entries[k].v["result"] = "Win" /\ Entries[j].v["result"] = "Loss"
                     \/ /\ Entries[k].v["result"] = Entries[j].v["result"]
                        /\ Entries[k].src < Entries[j].src
        /\ (ExampleTable /\ loc.fighter_name = "A") =>
              /\ stats.wins = 1 /\ stats.losses = 1 /\ stats.ko_wins = 1
              /\ stats.ko_rate = <<100, 1>> /\ stats.sub_rate = <<0, 1>>
              /\ stats.win_rate = <<50, 1>>
              /\ Entries[1].v["date"] = 20210101 /\ Entries[1].v["result"] = "Win"
              /\ Entries[2].v["date"] = 20210601 /\ Entries[2].v["result"] = "Loss"

C7_Witness ==
    /\ Returned
    /\ ExampleTable
    /\ loc.fighter_name = "A"
    /\ df.rows[1].v["winner"] = "C"
    /\ Entries[1].v["result"] = "Win"

\* C8: strike_accuracy is 100 * (the fighter's own strikes landed) / (own
\* strikes attempted) over the wins and losses together, own figures being
\* the winner_* columns on wins and the loser_* columns on losses, zero where
\* the column is not in the table; 0 when nothing was attempted.
\* takedown_accuracy likewise.
OwnFigure(wcol, lcol) ==
    LET Cell(i, c) == IF c \in df.columns THEN df.rows[i].v[c] ELSE 0
        f[n \in 0..Len(df.rows)] ==
            IF n = 0 THEN 0
            ELSE f[n - 1] + (IF n \in WonRows THEN Cell(n, wcol) ELSE 0)
                          + (IF n \in LostRows THEN Cell(n, lcol) ELSE 0)
    IN f[Len(df.rows)]
IsPercentOf(rate, part, whole) ==
    IF whole = 0 THEN rate = <<0, 1>>
    ELSE rate[2] > 0 /\ rate[1] * whole = 100 * part * rate[2]

C8_Accuracy ==
    Returned =>
        /\ IsPercentOf(stats.strike_accuracy,
                       OwnFigure("winner_strikes_landed", "loser_strikes_landed"),
                       OwnFigure("winner_strikes_attempted", "loser_strikes_attempted"))
        /\ IsPercentOf(stats.takedown_accuracy,
                       OwnFigure("winner_takedowns", "loser_takedowns"),
                       OwnFigure("winner_takedown_attempts", "loser_takedown_attempts"))

\* C9: ko_wins and sub_wins count rows the fighter won only, so both lie in
\* 0..wins and both rates in [0, 100]; with no wins both rates are 0.
InPercentRange(rate) == rate[2] > 0 /\ rate[1] >= 0 /\ rate[1] <= 100 * rate[2]

C9_FinishesAreWins ==
    Returned =>
        /\ stats.ko_wins =
              Cardinality({i \in WonRows : HasKeyword(df.rows[i].v["method"], KoKeywords)})
        /\ stats.sub_wins =
              Cardinality({i \in WonRows : HasKeyword(df.rows[i].v["method"], SubKeywords)})
        /\ stats.ko_wins >= 0 /\ stats.ko_wins <= stats.wins
        /\ stats.sub_wins >= 0 /\ stats.sub_wins <= stats.wins
        /\ IsPercentOf(stats.ko_rate, stats.ko_wins, stats.wins)
        /\ IsPercentOf(stats.sub_rate, stats.sub_wins, stats.wins)
        /\ InPercentRange(stats.ko_rate) /\ InPercentRange(stats.sub_rate)
        /\ stats.wins = 0 => (stats.ko_rate = <<0, 1>> /\ stats.sub_rate = <<0, 1>>)

C9_Witness ==
    /\ Returned
    /\ stats.wins = 1
    /\ stats.ko_wins = 0
    /\ \E i \in LostRows \ WonRows : HasKeyword(df.rows[i].v["method"], KoKeywords)

C9_NoWinsWitness ==
    /\ Returned
    /\ stats.wins = 0
    /\ \E i \in LostRows : HasKeyword(df.rows[i].v["method"], KoKeywords)

\* C10: the decision count of the chart is wins - ko_wins - sub_wins without
\* a floor: it is (wins matching neither keyword set) - (wins matching both),
\* so negative exactly when the latter outnumber the former (one win by
\* "KO (Leg Kick)" gives -1), and the chart then has no Decision slice.
BothRows ==
    {i \in WonRows : /\ HasKeyword(df.rows[i].v["method"], KoKeywords)
                     /\ HasKeyword(df.rows[i].v["method"], SubKeywords)}
NeitherRows ==
    {i \in WonRows : /\ ~HasKeyword(df.rows[i].v["method"], KoKeywords)
                     /\ ~HasKeyword(df.rows[i].v["method"], SubKeywords)}
Charted == Returned /\ pie # None
SliceOf(label) ==
    {k \in Positions(pie.figure.labels) : pie.figure.labels[k] = label}

C10_DecisionResidual ==
    Charted =>
        /\ pie.decision_wins = stats.wins - stats.ko_wins - stats.sub_wins
        /\ pie.decision_wins = Cardinality(NeitherRows) - Cardinality(BothRows)
        /\ (pie.decision_wins < 0) <=> (Cardinality(BothRows) > Cardinality(NeitherRows))
        /\ pie.decision_wins <= 0 => SliceOf("Decision") = {}
        /\ \A k \in Positions(pie.figure.values) : pie.figure.values[k] > 0
        /\ (pie.decision_wins > 0 /\ stats.wins > 0) =>
              \E k \in SliceOf("Decision") : pie.figure.values[k] = pie.decision_wins

C10_Witness ==
    /\ Charted
    /\ stats.wins = 1
    /\ \E i \in WonRows : df.rows[i].v["method"] = TxtKOLegKick
    /\ pie.decision_wins = -1
    /\ pie.figure.labels = <<"KO/TKO", "Submission">>

\* C11: a query never changes the table: after any sequence of queries, for
\* names in the table or not, the table is the one load_data returned (the
\* result column and the own-figure columns exist in the returned
\* fights_data only), so a query's result is one computed from that table
\* whatever was asked before.
Loaded == load_data(file).df

C11_TableNeverMutated ==
    load.status = "ok" =>
        /\ df = Loaded
        /\ "result" \notin df.columns
        /\ OwnColumns \cap df.columns = {}
        /\ Queried =>
              stats \in { r.ret : r \in calculate_fighter_stats(Loaded, loc.fighter_name) }
        /\ Returned =>
              ({"result"} \cup OwnColumns) \subseteq stats.fights_data.columns

C11_Witness ==
    /\ Returned
    /\ prev = "None"
    /\ loc.fighter_name = "A"
    /\ stats.wins > 0 /\ stats.losses > 0
    /\ "winner_strikes_landed" \notin df.columns
    /\ df = Loaded

\* C12: in a run of main the aggregator is called only after load_data
\* returned a table with rows: when the load fails (no file, missing columns,
\* an exception) or the table is empty, the run ends in the error state
\* with no query made, and no query is ever made on None.
NoTable ==
    \/ load.status \in {"FileNotFoundError", "MissingColumns", "Exception"}
    \/ load.status = "ok" /\ Len(df.rows) = 0

C12_AggregateOnlyAfterLoad ==
    /\ (Queried \/ run.pc \in {"calc1", "calc2", "unable", "dashboard", "raised"}) =>
          /\ load.status = "ok"
          /\ df # None
          /\ Len(df.rows) > 0
    /\ NoTable => (run.pc = "error" /\ ~Queried /\ stats = None)
    /\ load.status # "ok" => df = None

C12_Witness ==
    /\ load.status = "ok"
    /\ Len(file.rows) > 0
    /\ Len(df.rows) = 0
    /\ run.pc = "error"
    /\ ~Queried

C12_QueriedWitness ==
    /\ run.pc = "dashboard"
    /\ Returned
    /\ prev = "stats"

====
